---- MODULE Spec2Model ----
(***************************************************************************)
(* BrowserRegistry (src/src/main.ts, second half): the registry of browser *)
(* entries, the per-entry connection mutex, connect / ensureConnected /    *)
(* getContext / connectAllInBackground / canRetry / disposeAll, and the    *)
(* reconnect_browser handler (src/unnamed/part_005).                       *)
(*                                                                         *)
(* One action is one synchronous run of JavaScript between two awaits.     *)
(* Entries and browser handles are heap objects: entry[k] is the k-th      *)
(* BrowserEntry ever created, handle[k] the k-th Browser object ever       *)
(* obtained; `browsers` is the registry array of entry references.  The    *)
(* McpContext built from (or supplied with) handle k is named k too.       *)
(* `ret` is the outcome a caller has just been handed: the record of the   *)
(* call that settled in the last step.  `regs` counts the registrations    *)
(* made since the registry array was last replaced by an empty one, `snap` *)
(* is the list a caller got from getAll() and what the caller made of it.  *)
(*                                                                         *)
(* The tool dispatcher (src/src/main.ts, registerTool) runs every tool     *)
(* invocation under `toolMutex`; `started` tells whether the startup       *)
(* sequence has reached connectAllInBackground.  A tool invocation runs in *)
(* a call slot too: its record carries the tool's name, whether the tool   *)
(* handler was invoked, and the lines list_browsers wrote.                 *)
(***************************************************************************)
EXTENDS Integers, Sequences, FiniteSets, TLC

\* ---------------------------------------------------------------- bounds
MaxEntries == 2     \* entries the registry holds at a time
MaxCalls == 2       \* registry calls ever issued (each its own promise chain)
MaxSweeps == 1      \* disposeAll calls ever issued
MaxMutations == 1   \* changes a caller makes to one list getAll returned
StartTime == 1000   \* first reading of Date.now()
MaxNow == 61000     \* last reading of Date.now()
HalfSecond == 500   \* an instant that is not a whole second before a deadline

\* ------------------------------------------------------ program constants
RETRY_COOLDOWN_MS == 60000
maxRetries == 5
retryDelayMs == 2000
MsPerSecond == 1000

Procs == 1..MaxCalls
NoIndex == -1                      \* index === undefined
Indices == 0..(MaxEntries + 1)     \* supplied index values
PositiveIndices == Indices \ {0}  \* z.number().int().positive()
NoError == <<"none", 0>>           \* lastError === undefined

\* what a call knows of the connect that released the mutex to it
NoPrev == [op |-> "none", ok |-> FALSE, ctx |-> 0, h |-> 0, attaches |-> 0,
           waited |-> FALSE, wasConn |-> FALSE, force |-> FALSE, rsc |-> FALSE]

\* The kinds of run explored.  A scenario bounds what the environment does
\* in one behaviour, never what the registry does:
\*   live   callers add connected browsers, browsers go away
\*   clock  time is seen to pass (the cooldown window)
\*   retry  entries are configured with a start command
\*   sweep  callers add connected browsers and call disposeAll
\*   list   callers take getAll() lists and change them
Scenarios == {"live", "clock", "retry", "sweep", "list"}

VARIABLES browsers, entry, handle, call, ret, now, ncalls, sweep, scenario, regs,
          snap, toolMutex, started

vars == <<browsers, entry, handle, call, ret, now, ncalls, sweep, scenario, regs,
          snap, toolMutex, started>>

Allows(feature) ==
  CASE scenario = "live" -> feature \in {"add", "drop"}
    [] scenario = "clock" -> feature \in {"time"}
    [] scenario = "retry" -> feature \in {"startCommand"}
    [] scenario = "sweep" -> feature \in {"add", "dispose"}
    [] scenario = "list" -> feature \in {"getAll"}

\* ------------------------------------------------------------ small helpers
\* Math.ceil(n / d) for n >= 0, d > 0
Ceil(n, d) == (n + d - 1) \div d

\* entry.browser?.connected
BrowserConnected(en) == en.browser # 0 /\ handle[en.browser].live

\* ------------------------------------------------------------------- Mutex
\* acquire(): take the lock when free, else join the FIFO of acquirers
MutexAcquire(en, c) ==
  IF en.locked THEN [en EXCEPT !.queue = Append(@, c)]
  ELSE [en EXCEPT !.locked = TRUE]

\* release(): hand the lock to the oldest acquirer, else unlock
MutexRelease(en) ==
  IF en.queue = <<>> THEN [en EXCEPT !.locked = FALSE]
  ELSE [en EXCEPT !.queue = Tail(@)]

\* the acquirer whose promise release() resolves (0: none)
MutexNext(en) == IF en.queue = <<>> THEN 0 ELSE Head(en.queue)

\* --------------------------------------------------------------- registry
count == Len(browsers)

isEmpty == Len(browsers) = 0

hasMultipleBrowsers == Len(browsers) > 1

\* faulty variant: the last index taken to be out of bounds
InRangeExclusive(index) == ~(index < 1 \/ index >= Len(browsers))

\* the bounds check of get, connect, ensureConnected and canRetry
InRange(index) == ~(index < 1 \/ index > Len(browsers))

\* get(index): the entry reference, or 0 for the out-of-bounds error
get(index) == IF InRange(index) THEN browsers[index] ELSE 0

\* faulty variant: the registry's own array handed out
getAllAliased == [shared |-> TRUE, items |-> <<>>]

\* getAll(): [...this.browsers], a new array holding the same entry
\* references in the same order (shared: the list is the registry's array)
getAll == [shared |-> FALSE, items |-> [i \in 1..Len(browsers) |-> browsers[i]]]

\* faulty variant: the index shifted down once more
entryAtClamped(index) == browsers[IF index > 1 THEN index - 1 ELSE 1]

\* this.browsers[index - 1] for a 1-based index
entryAt(index) == browsers[index]

\* faulty variant: the window counted as strictly longer than the cooldown
canRetryLate(index) ==
  IF ~InRange(index) THEN FALSE
  ELSE LET en == entry[browsers[index]] IN
       IF en.state # "disconnected" \/ en.lastAttempt = 0 THEN TRUE
       ELSE now - en.lastAttempt > RETRY_COOLDOWN_MS

\* canRetry(index)
canRetry(index) ==
  IF ~InRange(index) THEN FALSE
  ELSE LET en == entry[browsers[index]] IN
       IF en.state # "disconnected" \/ en.lastAttempt = 0 THEN TRUE
       ELSE now - en.lastAttempt >= RETRY_COOLDOWN_MS

\* -------------------------------------------------------------- records
\* BrowserConfig: the default launch configuration, or a --browserUrl with
\* a start command
Configs == { [kind |-> "launch", startCommand |-> FALSE],
             [kind |-> "url", startCommand |-> TRUE] }

\* the configuration addConnectedBrowser stores
AddedConfig == [kind |-> "none", startCommand |-> FALSE]

\* the label registerBrowserConfigs passes with a configuration
ConfigUrl(cfg) == IF cfg.kind = "launch" THEN "launched" ELSE "http://127.0.0.1:9222"

NewEntry(cfg, url) ==
  [config |-> cfg, url |-> url, browser |-> 0, context |-> 0,
   state |-> "pending", lastError |-> NoError, lastAttempt |-> 0,
   locked |-> FALSE, queue |-> <<>>]

\* a Browser object obtained for entry e; ctx is the state of the McpContext
\* that goes with it, throws whether that context's dispose() throws
NewHandle(e, ctx, throws) ==
  [owner |-> e, live |-> TRUE, closed |-> FALSE, ctx |-> ctx, throws |-> throws]

IdleCall ==
  [op |-> "none", idx |-> NoIndex, force |-> FALSE, rsc |-> FALSE, e |-> 0,
   pc |-> "idle", attempt |-> 0, attaches |-> 0, spawns |-> 0, sleeps |-> 0,
   h |-> 0, res |-> "none", ctx |-> 0, err |-> NoError, waitSec |-> 0,
   wake |-> 0, waited |-> FALSE, wasConn |-> FALSE, prev |-> NoPrev,
   tool |-> "none", invoked |-> FALSE, report |-> <<>>]

\* the list a caller holds: none yet
NoList == [taken |-> FALSE, shared |-> FALSE, items |-> <<>>, muts |-> 0]

\* new Mutex()
NewMutex == [locked |-> FALSE, queue |-> <<>>]

\* log: what the current (or last) sweep did at each entry it reached
IdleSweep == [pc |-> "idle", pos |-> 0, n |-> 0, log |-> <<>>]

Init ==
  /\ browsers = <<>>
  /\ entry = <<>>
  /\ handle = <<>>
  /\ call = [c \in Procs |-> IdleCall]
  /\ ret = IdleCall
  /\ now = StartTime
  /\ ncalls = 0
  /\ sweep = IdleSweep
  /\ scenario \in Scenarios
  /\ regs = 0
  /\ snap = NoList
  /\ toolMutex = NewMutex
  /\ started = FALSE

\* ------------------------------------------------------- call bookkeeping
\* the slot the i-th call from now runs in
SlotFor(i) == ncalls + i

\* the slot a new call runs in
IsNextSlot(c) == c = SlotFor(1)

\* no call is in flight: entries are registered before calls are made
\* (registerBrowserConfigs runs before connectAllInBackground and the tools)
Quiet == \A p \in Procs : call[p].pc = "idle"

\* a call that settled leaves its slot; its outcome is what its caller
\* observes next (a tool invocation awaiting it stays in the slot: the
\* dispatcher resumes with the outcome)
Out(calls) ==
  /\ call' = [p \in Procs |->
        IF calls[p].pc = "done"
        THEN IF calls[p].tool = "none" THEN IdleCall
             ELSE [calls[p] EXCEPT !.pc = "settled"]
        ELSE calls[p]]
  /\ ret' = IF \E p \in Procs : calls[p].pc = "done"
            THEN calls[CHOOSE p \in Procs : calls[p].pc = "done"]
            ELSE IdleCall

\* a fresh call record
Begin(op, idx, force, rsc) ==
  [IdleCall EXCEPT !.op = op, !.idx = idx, !.force = force, !.rsc = rsc]

\* the call throws `res` (cause `err`) to its caller
Thrown(r, res, err) ==
  [r EXCEPT !.pc = "done", !.res = res, !.err = err, !.ctx = 0, !.h = 0,
            !.wake = 0]

\* connect/ensureConnected resolved with context `ctx`; getContext on the
\* multi-browser path still has to run get(index) after its await
Resolved(r, ctx) ==
  IF r.op = "getContext" /\ r.idx # NoIndex
  THEN [r EXCEPT !.pc = "ret", !.ctx = ctx, !.h = 0, !.wake = 0]
  ELSE [r EXCEPT !.pc = "done", !.res = "ok", !.ctx = ctx, !.h = 0, !.wake = 0]

PrevOf(r, ok, ctx) ==
  [op |-> r.op, ok |-> ok, ctx |-> ctx, h |-> r.h, attaches |-> r.attaches,
   waited |-> r.waited, wasConn |-> r.wasConn, force |-> r.force, rsc |-> r.rsc]

\* release() by call r resolves the promise of the oldest acquirer of en
Grant(calls, en, prev) ==
  IF MutexNext(en) = 0 THEN calls
  ELSE [calls EXCEPT ![MutexNext(en)] = [@ EXCEPT !.pc = "held", !.prev = prev]]

\* ------------------------------------------------------------ registration
\* faulty variant: the position in the array handed back as the index
ReturnedZeroBased(op, index, e) ==
  [Begin(op, index - 1, FALSE, FALSE) EXCEPT !.pc = "done", !.res = "ok", !.e = e]

\* what register / addConnectedBrowser hands back: the new length of the
\* registry array as the 1-based index (e: the entry object pushed)
Returned(op, index, e) ==
  [Begin(op, index, FALSE, FALSE) EXCEPT !.pc = "done", !.res = "ok", !.e = e]

\* register(config, url)
Register(cfg) ==
  /\ Len(browsers) < MaxEntries
  /\ Quiet
  /\ cfg.startCommand => Allows("startCommand")
  /\ entry' = Append(entry, NewEntry(cfg, ConfigUrl(cfg)))
  /\ browsers' = Append(browsers, Len(entry) + 1)
  /\ call' = call
  /\ ret' = Returned("register", Len(browsers'), Len(entry) + 1)
  /\ regs' = regs + 1
  /\ UNCHANGED <<handle, now, ncalls, sweep, scenario, snap,
               toolMutex, started>>

\* addConnectedBrowser(browser, context, url); the caller's context object
\* may have a dispose() that throws (the tests' mock contexts have none)
AddConnectedBrowser(throws) ==
  /\ Len(browsers) < MaxEntries
  /\ Quiet
  /\ Allows("add")
  /\ handle' = Append(handle, NewHandle(Len(entry) + 1, "built", throws))
  /\ entry' = Append(entry,
       [NewEntry(AddedConfig, "http://localhost:9222") EXCEPT
          !.browser = Len(handle) + 1, !.context = Len(handle) + 1,
          !.state = "connected"])
  /\ browsers' = Append(browsers, Len(entry) + 1)
  /\ call' = call
  /\ ret' = Returned("addConnectedBrowser", Len(browsers'), Len(entry) + 1)
  /\ regs' = regs + 1
  /\ UNCHANGED <<now, ncalls, sweep, scenario, snap,
               toolMutex, started>>

\* ----------------------------------------------------------------- connect
\* faulty variant: one mutex shared by all the entries
AcquiringShared(r, e) ==
  [r EXCEPT !.e = e,
            !.pc = IF \E k \in DOMAIN entry : entry[k].locked THEN "wait" ELSE "held",
            !.waited = entry[e].locked,
            !.wasConn = (entry[e].state = "connected" /\ BrowserConnected(entry[e]))]

\* the call record of a connect that has called connectionMutex.acquire()
Acquiring(r, e) ==
  [r EXCEPT !.e = e,
            !.pc = IF entry[e].locked THEN "wait" ELSE "held",
            !.waited = entry[e].locked,
            !.wasConn = (entry[e].state = "connected" /\ BrowserConnected(entry[e]))]

\* faulty variant: connect proceeds without waiting for the mutex
connectEnterNoMutex(c, r, index) ==
  IF ~InRange(index)
  THEN /\ Out([call EXCEPT ![c] = Thrown(r, "OutOfRange", NoError)])
       /\ UNCHANGED entry
  ELSE /\ Out([call EXCEPT ![c] = [Acquiring(r, entryAt(index)) EXCEPT !.pc = "held"]])
       /\ entry' = [entry EXCEPT ![entryAt(index)].locked = TRUE]

\* connect(index, force, runStartCommand) up to its first await:
\* range check, entry lookup, connectionMutex.acquire()
connectEnter(c, r, index) ==
  IF ~InRange(index)
  THEN /\ Out([call EXCEPT ![c] = Thrown(r, "OutOfRange", NoError)])
       /\ UNCHANGED entry
  ELSE /\ Out([call EXCEPT ![c] = Acquiring(r, entryAt(index))])
       /\ entry' = [entry EXCEPT ![entryAt(index)] = MutexAcquire(@, c)]

\* faulty variant: the remaining wait rounded down
waitSecFloor(elapsed) == (RETRY_COOLDOWN_MS - elapsed) \div MsPerSecond

\* the wait reported by the cooldown error: Math.ceil(remaining / 1000)
waitSecOf(elapsed) == Ceil(RETRY_COOLDOWN_MS - elapsed, MsPerSecond)

\* ensureConnected(index) up to its first await
ensureConnectedEnter(c, r, index) ==
  IF ~InRange(index)
  THEN /\ Out([call EXCEPT ![c] = Thrown(r, "OutOfRange", NoError)])
       /\ UNCHANGED entry
  ELSE LET e == entryAt(index)
           en == entry[e]
       IN IF en.state = "connected" /\ BrowserConnected(en)
          THEN /\ Out([call EXCEPT ![c] =
                      Resolved([r EXCEPT !.e = e, !.wasConn = TRUE], en.context)])
               /\ UNCHANGED entry
          ELSE IF /\ en.state = "disconnected"
                  /\ en.lastAttempt # 0
                  /\ now - en.lastAttempt < RETRY_COOLDOWN_MS
               THEN /\ Out([call EXCEPT ![c] =
                           [Thrown([r EXCEPT !.e = e], "CooldownActive", en.lastError)
                              EXCEPT !.waitSec = waitSecOf(now - en.lastAttempt)]])
                    /\ UNCHANGED entry
               ELSE connectEnter(c, r, index)

\* faulty variant: no addressing check, a missing index meaning entry 1
getContextEnterLenient(c, r) ==
  ensureConnectedEnter(c, r, IF r.idx = NoIndex THEN 1 ELSE r.idx)

\* getContext(index?) up to its first await
getContextEnter(c, r) ==
  IF Len(browsers) = 1
  THEN IF r.idx # NoIndex
       THEN /\ Out([call EXCEPT ![c] = Thrown(r, "IndexMustBeAbsent", NoError)])
            /\ UNCHANGED entry
       ELSE ensureConnectedEnter(c, r, 1)
  ELSE IF r.idx = NoIndex
       THEN /\ Out([call EXCEPT ![c] = Thrown(r, "IndexRequired", NoError)])
            /\ UNCHANGED entry
       ELSE ensureConnectedEnter(c, r, r.idx)

\* faulty variant: no addressing check, a missing index meaning entry 1
reconnectEnterLenient(c, r) ==
  connectEnter(c, r, IF r.idx = NoIndex THEN 1 ELSE r.idx)

\* the reconnect_browser handler up to its first await
reconnectEnter(c, r) ==
  IF count = 1
  THEN IF r.idx # NoIndex
       THEN /\ Out([call EXCEPT ![c] = Thrown(r, "IndexMustBeAbsent", NoError)])
            /\ UNCHANGED entry
       ELSE connectEnter(c, r, 1)
  ELSE IF r.idx = NoIndex
       THEN /\ Out([call EXCEPT ![c] = Thrown(r, "IndexRequired", NoError)])
            /\ UNCHANGED entry
       ELSE connectEnter(c, r, r.idx)

\* a caller invokes registry.connect(index, force, runStartCommand)
CallConnect(c) ==
  /\ IsNextSlot(c) /\ ncalls < MaxCalls
  /\ \E index \in Indices, force \in BOOLEAN,
        rsc \in IF Allows("startCommand") THEN BOOLEAN ELSE {FALSE} :
       connectEnter(c, Begin("connect", index, force, rsc), index)
  /\ ncalls' = ncalls + 1
  /\ UNCHANGED <<browsers, handle, now, sweep, scenario, regs, snap,
               toolMutex, started>>

\* a caller invokes registry.ensureConnected(index)
CallEnsureConnected(c) ==
  /\ IsNextSlot(c) /\ ncalls < MaxCalls
  /\ \E index \in Indices :
       ensureConnectedEnter(c, Begin("ensureConnected", index, FALSE, FALSE), index)
  /\ ncalls' = ncalls + 1
  /\ UNCHANGED <<browsers, handle, now, sweep, scenario, regs, snap,
               toolMutex, started>>

\* a caller invokes registry.getContext(index?)
CallGetContext(c) ==
  /\ IsNextSlot(c) /\ ncalls < MaxCalls
  /\ \E idx \in {NoIndex} \cup Indices :
       getContextEnter(c, Begin("getContext", idx, FALSE, FALSE))
  /\ ncalls' = ncalls + 1
  /\ UNCHANGED <<browsers, handle, now, sweep, scenario, regs, snap,
               toolMutex, started>>

\* the reconnect_browser tool handler runs with params.browserIndex
CallReconnect(c) ==
  /\ IsNextSlot(c) /\ ncalls < MaxCalls
  /\ \E idx \in {NoIndex} \cup PositiveIndices :
       reconnectEnter(c, Begin("reconnect", idx, TRUE, TRUE))
  /\ ncalls' = ncalls + 1
  /\ UNCHANGED <<browsers, handle, now, sweep, scenario, regs, snap,
               toolMutex, started>>

\* faulty variant: the failure path does not record the error
connectFailKeepsError(c, en, error) ==
  /\ entry' = [entry EXCEPT ![call[c].e] =
        MutexRelease([en EXCEPT !.state = "disconnected"])]
  /\ Out(Grant([call EXCEPT ![c] = Thrown(@, "ConnectionFailed", error)], en,
               PrevOf(call[c], FALSE, 0)))

\* faulty variant: the failure path leaves without releasing the mutex
connectFailNoRelease(c, en, error) ==
  /\ entry' = [entry EXCEPT ![call[c].e] =
        [en EXCEPT !.state = "disconnected", !.lastError = error]]
  /\ Out([call EXCEPT ![c] = Thrown(@, "ConnectionFailed", error)])

\* faulty variant: the failure path leaves the entry's state as it is
connectFailUnmarked(c, en, error) ==
  /\ entry' = [entry EXCEPT ![call[c].e] = MutexRelease([en EXCEPT !.lastError = error])]
  /\ Out(Grant([call EXCEPT ![c] = Thrown(@, "ConnectionFailed", error)], en,
               PrevOf(call[c], FALSE, 0)))

\* the catch and finally blocks of connect: mark the entry, release the
\* mutex, rethrow
connectFail(c, en, error) ==
  /\ entry' = [entry EXCEPT ![call[c].e] =
        MutexRelease([en EXCEPT !.state = "disconnected", !.lastError = error])]
  /\ Out(Grant([call EXCEPT ![c] = Thrown(@, "ConnectionFailed", error)], en,
               PrevOf(call[c], FALSE, 0)))

\* faulty variant: the old context dropped without being disposed
disposeContextSkipped(H, ctx) == H

\* context.dispose() on the stored context, when there is one
disposeContext(H, ctx) ==
  IF ctx = 0 THEN H ELSE [H EXCEPT ![ctx].ctx = "disposed"]

\* faulty variant: no double-check after acquiring the mutex
noDoubleCheck(force, en) == FALSE

\* the double-check after acquiring the mutex
alreadyConnected(force, en) ==
  ~force /\ en.state = "connected" /\ BrowserConnected(en)

\* connect resumes holding the mutex: early return for a live connection,
\* else dispose the old context, mark the entry and start tryConnect
ConnectLocked(c) ==
  /\ call[c].pc = "held"
  /\ LET r == call[c]
         en == entry[r.e]
     IN IF alreadyConnected(r.force, en)
        THEN /\ entry' = [entry EXCEPT ![r.e] = MutexRelease(en)]
             /\ Out(Grant([call EXCEPT ![c] = Resolved(r, en.context)], en,
                          PrevOf(r, TRUE, en.context)))
             /\ UNCHANGED handle
        ELSE IF en.context # 0 /\ handle[en.context].throws
             THEN /\ connectFail(c, en, <<"dispose", 0>>)
                  /\ UNCHANGED handle
             ELSE /\ handle' = disposeContext(handle, en.context)
                  /\ entry' = [entry EXCEPT ![r.e] =
                        [en EXCEPT !.context = 0, !.state = "connecting",
                                   !.lastAttempt = now]]
                  /\ Out([call EXCEPT ![c] =
                        [r EXCEPT !.pc = "attach", !.attaches = @ + 1]])
  /\ UNCHANGED <<browsers, now, ncalls, sweep, scenario, regs, snap,
               toolMutex, started>>

\* faulty variant: one retry too many
retriesExhaustedLate(attempt) == attempt > maxRetries

\* the retry loop is at its last iteration
retriesExhausted(attempt) == attempt = maxRetries

\* faulty variant: the start command run whatever the caller asked for
shouldSpawnAlways(rsc, en) == en.config.startCommand

\* runStartCommand && entry.config.startCommand
shouldSpawn(rsc, en) == rsc /\ en.config.startCommand

\* what connect does with a rejected tryConnect: the start-command branch
\* with its retry loop, or rethrow
afterAttachFailure(c, error) ==
  LET r == call[c]
      en == entry[r.e]
  IN IF r.attempt = 0
     THEN IF shouldSpawn(r.rsc, en)
          THEN /\ Out([call EXCEPT ![c] =
                     [r EXCEPT !.spawns = @ + 1, !.attempt = 1, !.err = error,
                        !.pc = "sleep", !.sleeps = @ + 1,
                        !.wake = now + retryDelayMs]])
               /\ UNCHANGED entry
          ELSE connectFail(c, en, error)
     ELSE IF retriesExhausted(r.attempt)
          THEN connectFail(c, en, error)
          ELSE /\ Out([call EXCEPT ![c] =
                     [r EXCEPT !.attempt = @ + 1, !.err = error,
                        !.pc = "sleep", !.sleeps = @ + 1,
                        !.wake = now + retryDelayMs]])
               /\ UNCHANGED entry

\* tryConnect (launch or ensureBrowserConnected) resolves with a Browser
AttachSucceeds(c) ==
  /\ call[c].pc = "attach"
  /\ handle' = Append(handle, NewHandle(call[c].e, "none", FALSE))
  /\ Out([call EXCEPT ![c] = [@ EXCEPT !.pc = "build", !.h = Len(handle) + 1]])
  /\ UNCHANGED <<browsers, entry, now, ncalls, sweep, scenario, regs, snap,
               toolMutex, started>>

\* tryConnect rejects
AttachFails(c) ==
  /\ call[c].pc = "attach"
  /\ afterAttachFailure(c, <<"attach", call[c].attaches>>)
  /\ UNCHANGED <<browsers, handle, now, ncalls, sweep, scenario, regs, snap,
               toolMutex, started>>

\* tryConnect (launch or ensureBrowserConnected) settles
AttachSettles(c) == AttachSucceeds(c) \/ AttachFails(c)

\* the retry delay is over (setTimeout fires no earlier than its delay):
\* next tryConnect
SleepSettles(c) ==
  /\ call[c].pc = "sleep"
  /\ now' = IF now < call[c].wake THEN call[c].wake ELSE now
  /\ Out([call EXCEPT ![c] = [@ EXCEPT !.pc = "attach", !.attaches = @ + 1, !.wake = 0]])
  /\ UNCHANGED <<browsers, entry, handle, ncalls, sweep, scenario, regs, snap,
               toolMutex, started>>

\* faulty variant: a success that leaves the previous error in place
installedKeepsError(en, h) ==
  [en EXCEPT !.browser = h, !.context = h, !.state = "connected"]

\* faulty variant: a success that does not store the context
installedNoContext(en, h) ==
  [en EXCEPT !.browser = h, !.state = "connected", !.lastError = NoError]

\* the entry after a successful connect: handle h and the context built
\* from it stored, state connected, lastError cleared
installed(en, h) ==
  [en EXCEPT !.browser = h, !.context = h, !.state = "connected",
             !.lastError = NoError]

\* McpContext.from settles: install handle and context, or fail
BuildSettles(c) ==
  /\ call[c].pc = "build"
  /\ LET r == call[c]
         en == entry[r.e]
     IN \/ /\ handle' = [handle EXCEPT ![r.h].ctx = "built"]
           /\ entry' = [entry EXCEPT ![r.e] =
                 MutexRelease(installed(en, r.h))]
           /\ Out(Grant([call EXCEPT ![c] = Resolved(r, r.h)], en, PrevOf(r, TRUE, r.h)))
        \/ /\ connectFail(c, en, <<"build", 0>>)
           /\ UNCHANGED handle
  /\ UNCHANGED <<browsers, now, ncalls, sweep, scenario, regs, snap,
               toolMutex, started>>

\* getContext resumes after `await this.ensureConnected(index)`: get(index)
GetContextReturn(c) ==
  /\ call[c].pc = "ret"
  /\ Out([call EXCEPT ![c] =
        IF get(call[c].idx) = 0 THEN Thrown(@, "OutOfRange", NoError)
        ELSE [@ EXCEPT !.pc = "done", !.res = "ok"]])
  /\ UNCHANGED <<browsers, entry, handle, now, ncalls, sweep, scenario, regs, snap,
               toolMutex, started>>

\* ------------------------------------------------- connectAllInBackground
\* faulty variant: the loop over the indices ends after the first
IndexOfSlotFirstOnly(p) == IF p - ncalls = 1 /\ Len(browsers) >= 1 THEN 1 ELSE 0

\* the registry position whose background connect runs in slot p (0: none)
IndexOfSlot(p) == IF p - ncalls \in 1..Len(browsers) THEN p - ncalls ELSE 0

\* the loop of connectAllInBackground: connect(index) for every index
connectAll ==
  /\ Len(browsers) >= 1
  /\ ncalls + Len(browsers) <= MaxCalls
  /\ Out([p \in Procs |->
        IF IndexOfSlot(p) # 0
        THEN Acquiring(Begin("background", IndexOfSlot(p), FALSE, FALSE),
                       browsers[IndexOfSlot(p)])
        ELSE call[p]])
  /\ entry' = [k \in DOMAIN entry |->
        IF \E i \in 1..Len(browsers) : browsers[i] = k
        THEN MutexAcquire(entry[k],
               SlotFor(CHOOSE j \in 1..Len(browsers) : browsers[j] = k))
        ELSE entry[k]]
  /\ ncalls' = ncalls + Len(browsers)

\* connectAllInBackground(): connect(index) for every index, not awaited
ConnectAllInBackground ==
  /\ connectAll
  /\ UNCHANGED <<browsers, handle, now, sweep, scenario, regs, snap,
               toolMutex, started>>

\* -------------------------------------------------------------- disposeAll
\* what the sweep does at entry e with handle table H: context.dispose()
\* when a context is stored (threw: it threw, which skips the rest of the
\* iteration), then close() when the browser is connected
sweepStep(e, H) ==
  LET en == entry[e]
      threw == en.context # 0 /\ H[en.context].throws
      isLive == en.browser # 0 /\ H[en.browser].live
  IN [e |-> e, ctx |-> en.context, threw |-> threw, live |-> isLive,
      closeCalled |-> ~threw /\ isLive]

\* faulty variant: the first failing dispose ends the sweep
RECURSIVE sweepFromAborting(_, _)
sweepFromAborting(i, H) ==
  IF i > Len(browsers) THEN [handle |-> H, pos |-> 0, log |-> <<>>]
  ELSE LET st == sweepStep(browsers[i], H)
           H1 == IF st.threw THEN H ELSE disposeContext(H, st.ctx)
       IN IF st.threw THEN [handle |-> H1, pos |-> 0, log |-> <<st>>]
          ELSE IF st.closeCalled THEN [handle |-> H1, pos |-> i, log |-> <<st>>]
          ELSE LET rest == sweepFromAborting(i + 1, H1)
               IN [rest EXCEPT !.log = <<st>> \o @]

\* the synchronous part of the disposeAll loop from position i on, with
\* handle table H: dispose the context (a throw skips to the next entry),
\* stop at the first entry whose browser is connected (await close())
RECURSIVE sweepFrom(_, _)
sweepFrom(i, H) ==
  IF i > Len(browsers) THEN [handle |-> H, pos |-> 0, log |-> <<>>]
  ELSE LET st == sweepStep(browsers[i], H)
           H1 == IF st.threw THEN H ELSE disposeContext(H, st.ctx)
       IN IF st.closeCalled THEN [handle |-> H1, pos |-> i, log |-> <<st>>]
          ELSE LET rest == sweepFrom(i + 1, H1)
               IN [rest EXCEPT !.log = <<st>> \o @]

\* faulty variant: the registry array left as it is
notCleared(B) == B

\* this.browsers = [] at the end of disposeAll
cleared(B) == <<>>

\* run the loop from position i until it awaits or ends (this.browsers = [])
sweepRun(i, H) ==
  LET s == sweepFrom(i, H)
  IN /\ handle' = s.handle
     /\ IF s.pos = 0
        THEN /\ browsers' = cleared(browsers)
             /\ regs' = 0
             /\ sweep' = [sweep EXCEPT !.pc = "idle", !.pos = 0,
                                       !.log = @ \o s.log]
        ELSE /\ browsers' = browsers
             /\ regs' = regs
             /\ sweep' = [sweep EXCEPT !.pc = "closing", !.pos = s.pos,
                                       !.log = @ \o s.log]

\* a caller invokes disposeAll()
DisposeAll ==
  /\ Allows("dispose")
  /\ sweep.pc = "idle"
  /\ sweep.n < MaxSweeps
  /\ \E s \in {[sweep EXCEPT !.n = @ + 1]} :
       LET r == sweepFrom(1, handle)
       IN /\ handle' = r.handle
          /\ IF r.pos = 0
             THEN /\ browsers' = cleared(browsers)
                  /\ regs' = 0
                  /\ sweep' = [s EXCEPT !.log = r.log]
             ELSE /\ browsers' = browsers
                  /\ regs' = regs
                  /\ sweep' = [s EXCEPT !.pc = "closing", !.pos = r.pos,
                                        !.log = r.log]
  /\ Out(call)
  /\ UNCHANGED <<entry, now, ncalls, scenario, snap,
               toolMutex, started>>

\* browser.close() of the entry at sweep.pos settles; the loop goes on
CloseSettles ==
  /\ sweep.pc = "closing"
  /\ \E ok \in BOOLEAN :
       sweepRun(sweep.pos + 1,
                IF ok THEN [handle EXCEPT ![entry[browsers[sweep.pos]].browser] =
                              [@ EXCEPT !.live = FALSE, !.closed = TRUE]]
                ELSE handle)
  /\ Out(call)
  /\ UNCHANGED <<entry, now, ncalls, scenario, snap,
               toolMutex, started>>

\* ------------------------------------------------------------------ getAll
\* the elements of the list the caller holds
ListItems == IF snap.shared THEN browsers ELSE snap.items

Reverse(L) == [i \in 1..Len(L) |-> L[Len(L) + 1 - i]]

\* what a caller can make of a list L: push an entry reference, pop, reverse
Mutations(L) ==
  {Append(L, e) : e \in DOMAIN entry}
    \cup (IF L = <<>> THEN {} ELSE {SubSeq(L, 1, Len(L) - 1), Reverse(L)})

\* a caller invokes getAll() and keeps the list
GetAll ==
  /\ Allows("getAll")
  /\ snap' = [taken |-> TRUE, shared |-> getAll.shared, items |-> getAll.items,
              muts |-> 0]
  /\ Out(call)
  /\ UNCHANGED <<browsers, entry, handle, now, ncalls, sweep, scenario, regs,
               toolMutex, started>>

\* the caller changes the list it holds
MutateList ==
  /\ snap.taken
  /\ snap.muts < MaxMutations
  /\ \E L \in Mutations(ListItems) :
       IF snap.shared
       THEN /\ browsers' = L
            /\ snap' = [snap EXCEPT !.muts = @ + 1]
       ELSE /\ browsers' = browsers
            /\ snap' = [snap EXCEPT !.items = L, !.muts = @ + 1]
  /\ Out(call)
  /\ UNCHANGED <<entry, handle, now, ncalls, sweep, scenario, regs,
               toolMutex, started>>

\* ------------------------------------------------------------ environment
\* the browser behind an installed handle goes away (browser.connected
\* becomes false without the registry being told)
DropHandle(h) ==
  /\ Allows("drop")
  /\ handle[h].live
  /\ \E i \in 1..Len(browsers) : entry[browsers[i]].browser = h
  /\ handle' = [handle EXCEPT ![h].live = FALSE]
  /\ Out(call)
  /\ UNCHANGED <<browsers, entry, now, ncalls, sweep, scenario, regs, snap,
               toolMutex, started>>

\* the instants at which the passing of time shows: half a second before
\* the end of a cooldown window, and its end
Deadlines ==
  UNION { {entry[e].lastAttempt + RETRY_COOLDOWN_MS - HalfSecond,
           entry[e].lastAttempt + RETRY_COOLDOWN_MS} :
          e \in {k \in DOMAIN entry : entry[k].lastAttempt # 0
                                      /\ entry[k].state \in {"connecting", "disconnected"}} }

\* Date.now() advances
Tick ==
  /\ Allows("time")
  /\ \E t \in Deadlines : t > now /\ t <= MaxNow /\ now' = t
  /\ Out(call)
  /\ UNCHANGED <<browsers, entry, handle, ncalls, sweep, scenario, regs, snap,
               toolMutex, started>>

Next ==
  \/ \E cfg \in Configs : Register(cfg)
  \/ \E throws \in BOOLEAN : AddConnectedBrowser(throws)
  \/ \E c \in Procs : CallConnect(c)
  \/ \E c \in Procs : CallEnsureConnected(c)
  \/ \E c \in Procs : CallGetContext(c)
  \/ \E c \in Procs : CallReconnect(c)
  \/ ConnectAllInBackground
  \/ \E c \in Procs : ConnectLocked(c)
  \/ \E c \in Procs : AttachSettles(c)
  \/ \E c \in Procs : SleepSettles(c)
  \/ \E c \in Procs : BuildSettles(c)
  \/ \E c \in Procs : GetContextReturn(c)
  \/ DisposeAll
  \/ CloseSettles
  \/ GetAll
  \/ MutateList
  \/ \E h \in DOMAIN handle : DropHandle(h)
  \/ Tick

Spec == Init /\ [][Next]_vars

\* Every continuation that is ready runs: the continuation of a granted
\* acquire() is a queued microtask, the retry delay is a timer, and attach,
\* McpContext.from and close() are taken to settle (each invocation
\* terminates).  Callers and the environment are under no obligation.
Fairness ==
  /\ \A c \in Procs :
       /\ WF_vars(ConnectLocked(c))
       /\ WF_vars(AttachSettles(c))
       /\ WF_vars(SleepSettles(c))
       /\ WF_vars(BuildSettles(c))
       /\ WF_vars(GetContextReturn(c))
  /\ WF_vars(CloseSettles)

\* The server's own callers: tool calls resolve their context through
\* getContext, reconnect_browser calls connect(i, true, true), and startup
\* runs connectAllInBackground over the registered configurations, which
\* may carry a start command.
ServerInit == Init /\ scenario = "retry"

ServerNext ==
  \/ \E cfg \in Configs : Register(cfg)
  \/ \E c \in Procs : CallGetContext(c)
  \/ \E c \in Procs : CallReconnect(c)
  \/ ConnectAllInBackground
  \/ \E c \in Procs : ConnectLocked(c)
  \/ \E c \in Procs : AttachSettles(c)
  \/ \E c \in Procs : SleepSettles(c)
  \/ \E c \in Procs : BuildSettles(c)
  \/ \E c \in Procs : GetContextReturn(c)

FairSpec == ServerInit /\ [][ServerNext]_vars /\ Fairness

\* The server started while no browser can be reached: every attach/launch
\* invocation terminates by failing.
DownNext ==
  \/ \E cfg \in Configs : Register(cfg)
  \/ \E c \in Procs : CallGetContext(c)
  \/ \E c \in Procs : CallReconnect(c)
  \/ ConnectAllInBackground
  \/ \E c \in Procs : ConnectLocked(c)
  \/ \E c \in Procs : AttachFails(c)
  \/ \E c \in Procs : SleepSettles(c)

DownFairness ==
  \A c \in Procs :
    /\ WF_vars(ConnectLocked(c))
    /\ WF_vars(AttachFails(c))
    /\ WF_vars(SleepSettles(c))

DownSpec == ServerInit /\ [][DownNext]_vars /\ DownFairness

\* ================================================================ claims
\* the calls outstanding or just settled
Records == {call[c] : c \in Procs} \cup {ret}

\* a connect(i, false, false), as a caller or connectAllInBackground issues it
ConnectFF(x) == x.op \in {"connect", "background"} /\ ~x.force /\ ~x.rsc

\* `ret` is the outcome of the second of two concurrent connect(i, false,
\* false) calls against an entry that was not connected when either was
\* issued: it queued on the lock behind the first, which took the lock at once
SecondOfTwo ==
  /\ ret.pc = "done" /\ ConnectFF(ret) /\ ret.waited /\ ~ret.wasConn
  /\ ConnectFF(ret.prev) /\ ~ret.prev.waited /\ ~ret.prev.wasConn

\* C1 as stated: with two concurrent connect(i, false, false) calls on an
\* unconnected entry, the attach succeeding and the handle staying live,
\* exactly one attach is made in total and both callers get the same context.
C1_AsStated ==
  (SecondOfTwo /\ ret.prev.h # 0 /\ handle[ret.prev.h].live /\ ret.res = "ok")
    => /\ ret.prev.attaches + ret.attaches = 1
       /\ ret.prev.ok
       /\ ret.ctx = ret.prev.ctx

\* C1 (amended): with two concurrent connect(i, false, false) calls on an
\* unconnected entry, when the first caller's whole attempt succeeds (the
\* attach and the construction of the session context) and the handle stays
\* live, exactly one attach is made in total and both callers receive the
\* same session context.
C1_SingleFlight ==
  (SecondOfTwo /\ ret.prev.ok /\ handle[ret.prev.ctx].live)
    => /\ ret.prev.attaches = 1
       /\ ret.attaches = 0
       /\ ret.res = "ok"
       /\ ret.ctx = ret.prev.ctx

C1_Witness ==
  /\ SecondOfTwo /\ ret.prev.ok /\ handle[ret.prev.ctx].live
  /\ ret.res = "ok" /\ ret.ctx = ret.prev.ctx /\ ret.prev.attaches = 1

\* the connect calls between acquiring entry e's lock and releasing it
Holders(e) ==
  {c \in Procs : call[c].e = e /\ call[c].pc \in {"held", "attach", "sleep", "build"}}

\* C2: for every entry at most one connect call is between acquiring the
\* entry's lock and releasing it (so at most one attempt, retries and context
\* construction included, is in flight per entry), and the lock is held
\* exactly when there is such a call.
C2_MutualExclusion ==
  \A e \in DOMAIN entry :
    /\ Cardinality(Holders(e)) <= 1
    /\ entry[e].locked <=> Holders(e) # {}

C2_Witness ==
  \E e \in DOMAIN entry, c, d \in Procs :
    /\ call[c].e = e /\ call[c].pc = "attach"
    /\ call[d].e = e /\ call[d].pc = "wait"
    /\ call[d].op = "reconnect"

\* this step issues exactly one new call
Issues == ncalls' = ncalls + 1

\* the record of the call this step issues: in `ret` when the call settled
\* before its first await, else in its slot
Issued == IF call'[ncalls + 1].pc = "idle" THEN ret' ELSE call'[ncalls + 1]

\* C3: while the registry holds exactly one entry, getContext(index) fails
\* with IndexMustBeAbsent for every supplied index and touches nothing, and
\* getContext() resolves entry 1 through ensureConnected: it returns that
\* entry's context at once when the entry is connected and live.
C3_SingleTarget ==
  [][(Issues /\ Issued.op = "getContext" /\ Len(browsers) = 1) =>
      (LET en == entry[browsers[1]]
       IN /\ Issued.idx # NoIndex =>
               /\ Issued.pc = "done" /\ Issued.res = "IndexMustBeAbsent"
               /\ Issued.e = 0
               /\ entry' = entry /\ handle' = handle
          /\ Issued.idx = NoIndex =>
               /\ Issued.e = browsers[1]
               /\ (en.state = "connected" /\ BrowserConnected(en)) =>
                    /\ Issued.pc = "done" /\ Issued.res = "ok"
                    /\ Issued.ctx = en.context
                    /\ entry' = entry /\ handle' = handle
               /\ Issued.pc = "done" => Issued.res \in {"ok", "CooldownActive"})]_vars

C3_Witness ==
  /\ Len(browsers) = 1
  /\ ret.op = "getContext" /\ ret.idx = 1 /\ ret.res = "IndexMustBeAbsent"

\* C4: while the registry holds more than one entry, getContext() fails with
\* IndexRequired, getContext(i) for 1 <= i <= count resolves the i-th
\* registered entry, and a context getContext returns was built for (or
\* supplied with) the entry it resolved, never another entry.
C4_MultiTarget ==
  [][/\ (Issues /\ Issued.op = "getContext" /\ Len(browsers) > 1) =>
         ( /\ (Issued.idx = NoIndex) =>
                 ( /\ Issued.pc = "done" /\ Issued.res = "IndexRequired"
                   /\ Issued.e = 0
                   /\ entry' = entry /\ handle' = handle )
           /\ (Issued.idx \in 1..Len(browsers)) =>
                 ( /\ Issued.e = browsers[Issued.idx]
                   /\ Issued.res \in {"none", "ok", "CooldownActive"} ) )
     /\ (ret'.op = "getContext" /\ ret'.res = "ok") =>
            (handle'[ret'.ctx].owner = ret'.e)]_vars

C4_Witness ==
  /\ Len(browsers) = 2
  /\ ret.op = "getContext" /\ ret.idx = 2 /\ ret.res = "ok"
  /\ ret.e = browsers[2] /\ handle[ret.ctx].owner = browsers[2]
  /\ ret.attaches = 1

AddressingErrors == {"IndexMustBeAbsent", "IndexRequired", "OutOfRange"}

\* C5: a getContext, ensureConnected or connect call that fails with
\* IndexMustBeAbsent, IndexRequired or OutOfRange has made no attach/launch
\* invocation.
C5_NoIO ==
  (ret.op \in {"getContext", "ensureConnected", "connect"}
     /\ ret.res \in AddressingErrors)
    => ret.attaches = 0

\* C6: ensureConnected(i) issued while entry i is disconnected and fewer than
\* 60 seconds have passed since its lastAttempt fails with CooldownActive at
\* once, makes no attach, changes no entry and no handle, and reports a wait
\* of 1 to 60 seconds together with the entry's last recorded error.
C6_CooldownGate ==
  [][(Issues /\ Issued.op = "ensureConnected" /\ InRange(Issued.idx)) =>
      (LET en == entry[browsers[Issued.idx]]
       IN (en.state = "disconnected" /\ en.lastAttempt # 0
             /\ now - en.lastAttempt < RETRY_COOLDOWN_MS) =>
            /\ Issued.pc = "done" /\ Issued.res = "CooldownActive"
            /\ Issued.attaches = 0
            /\ entry' = entry /\ handle' = handle
            /\ Issued.waitSec >= 1
            /\ Issued.waitSec * MsPerSecond <= RETRY_COOLDOWN_MS
            /\ Issued.err = en.lastError /\ Issued.err # NoError)]_vars

C6_Witness ==
  /\ ret.op = "ensureConnected" /\ ret.res = "CooldownActive"
  /\ ret.waitSec = 1
  /\ now - entry[ret.e].lastAttempt = RETRY_COOLDOWN_MS - HalfSecond

NonForcedOps == {"getContext", "ensureConnected", "background"}

\* call c starts an attach/launch attempt in this step
StartsAttempt(c) == call[c].pc = "held" /\ call'[c].pc = "attach"

\* C7: once an attach/launch attempt on an entry has failed, no non-forced
\* caller (getContext, ensureConnected, background connect) starts another
\* attempt on that entry before 60 seconds have passed since lastAttempt,
\* callers that were queued on the entry's lock included.
C7_NoHammering ==
  [][\A c \in Procs :
       (/\ StartsAttempt(c)
        /\ call[c].op \in NonForcedOps
        /\ entry[call[c].e].state = "disconnected"
        /\ entry[call[c].e].lastAttempt # 0
        /\ entry[call[c].e].lastError[1] = "attach")
         => now - entry[call[c].e].lastAttempt >= RETRY_COOLDOWN_MS]_vars

\* `ret` is the outcome of a connect that failed on the entry still
\* registered at its index, with no start command in play
FailedPlain ==
  /\ ret.res = "ConnectionFailed"
  /\ ret.op \in {"connect", "background", "reconnect"}
  /\ InRange(ret.idx) /\ browsers[ret.idx] = ret.e
  /\ ~entry[ret.e].config.startCommand

\* C8 as stated: canRetry(i) is false immediately after a connect on entry
\* i, with no start command configured, made its attempt and failed.
C8_AsStated == (FailedPlain /\ ret.attaches = 1) => ~canRetry(ret.idx)

\* C8 (amended): canRetry(i) is true unless entry i is disconnected, has a
\* lastAttempt recorded and fewer than 60 seconds have passed since it; so
\* right after a failed connect with no start command canRetry(i) is false
\* exactly when the failed attempt was stamped and began less than 60
\* seconds ago, and it is true from the 60th second on.
C8_CanRetry ==
  /\ \A i \in 1..Len(browsers) :
       canRetry(i) <=> ~(/\ entry[browsers[i]].state = "disconnected"
                         /\ entry[browsers[i]].lastAttempt # 0
                         /\ now - entry[browsers[i]].lastAttempt < RETRY_COOLDOWN_MS)
  /\ FailedPlain =>
       (canRetry(ret.idx) <=> \/ entry[ret.e].lastAttempt = 0
                              \/ now >= entry[ret.e].lastAttempt + RETRY_COOLDOWN_MS)

C8_Witness ==
  \E i \in 1..Len(browsers) :
    /\ entry[browsers[i]].state = "disconnected"
    /\ now = entry[browsers[i]].lastAttempt + RETRY_COOLDOWN_MS
    /\ canRetry(i)
    /\ ~entry[browsers[i]].config.startCommand

\* C9: a connect that got past the early-out with runStartCommand false or
\* no start command configured has made exactly one attach/launch
\* invocation, spawned nothing and slept before no retry.
C9_FirstFailureTerminal ==
  \A r \in Records :
    (/\ r.pc = "done"
     /\ r.op \in {"connect", "background", "reconnect", "getContext", "ensureConnected"}
     /\ r.res = "ConnectionFailed" \/ (r.res = "ok" /\ r.attaches > 0)
     /\ ~(r.rsc /\ entry[r.e].config.startCommand))
      => r.attaches = 1 /\ r.spawns = 0 /\ r.sleeps = 0

\* the call runs (or ran) connect with runStartCommand on an entry that has
\* a start command
WithStartCommand(r) == r.e # 0 /\ r.rsc /\ entry[r.e].config.startCommand

C11_SpawnOnlyOnRequest ==
  \A r \in Records :
    /\ r.op \in NonForcedOps => ~r.rsc /\ r.spawns = 0 /\ r.sleeps = 0
    /\ r.spawns > 0 => r.rsc /\ r.op \in {"connect", "reconnect"} /\ r.attaches >= 1

C11_Witness ==
  /\ ret.op \in NonForcedOps
  /\ ret.res = "ConnectionFailed" /\ ret.err = <<"attach", 1>>
  /\ entry[ret.e].config.startCommand
  /\ ret.spawns = 0

\* C12: connect releases the entry lock on every exit path: a lock is never
\* held without a connect call holding it, every caller that waits for an
\* entry's lock eventually acquires it, and every lock is eventually free.
C12_LockReleased ==
  /\ [](\A e \in DOMAIN entry :
          /\ entry[e].locked => Holders(e) # {}
          /\ \A i \in 1..Len(entry[e].queue) :
               call[entry[e].queue[i]].pc = "wait" /\ call[entry[e].queue[i]].e = e)
  /\ \A c \in Procs : (call[c].pc = "wait") ~> (call[c].pc # "wait")
  /\ \A e \in 1..MaxEntries :
       (e \in DOMAIN entry /\ entry[e].locked)
         ~> (e \in DOMAIN entry /\ ~entry[e].locked)

C12_Witness ==
  /\ ret.pc = "done" /\ ret.waited /\ ret.res = "ConnectionFailed"
  /\ ret.prev.op # "none" /\ ~ret.prev.ok
  /\ ~entry[ret.e].locked

\* C13: whenever an entry is marked disconnected, the connect call that was
\* attempting it fails to its caller in the same step with ConnectionFailed
\* for that entry, the entry's lastError is the causing error, and the caller
\* receives no context; a disconnected entry always has lastError set.
C13_FailureOutcome ==
  [][/\ \A e \in DOMAIN entry :
          (entry[e].state # "disconnected" /\ entry'[e].state = "disconnected") =>
            ( /\ ret'.res = "ConnectionFailed" /\ ret'.e = e
              /\ ret'.ctx = 0
              /\ ret'.err # NoError /\ entry'[e].lastError = ret'.err )
     /\ (ret'.res = "ConnectionFailed") =>
            ( /\ entry'[ret'.e].state = "disconnected"
              /\ entry'[ret'.e].lastError = ret'.err )]_vars

C13_Witness ==
  /\ ret.op = "getContext" /\ ret.res = "ConnectionFailed"
  /\ ret.err = <<"build", 0>>
  /\ entry[ret.e].state = "disconnected" /\ entry[ret.e].lastError = ret.err

\* the record of call c after this step, wherever the step left it
After(c) == IF call'[c].pc = "idle" THEN ret' ELSE call'[c]

\* C14: whenever McpContext.from succeeds for the handle a connect call
\* obtained, the entry ends with that handle and the context built from it
\* installed, state connected and lastError cleared, and the context the
\* caller is given is the installed one.
C14_SuccessOutcome ==
  [][\A c \in Procs :
       (call[c].pc = "build" /\ call'[c].pc # "build"
          /\ After(c).res # "ConnectionFailed") =>
         ( /\ entry'[call[c].e].browser = call[c].h
           /\ entry'[call[c].e].context = call[c].h
           /\ entry'[call[c].e].state = "connected"
           /\ entry'[call[c].e].lastError = NoError
           /\ handle'[call[c].h].ctx = "built"
           /\ handle'[call[c].h].owner = call[c].e
           /\ After(c).ctx = entry'[call[c].e].context )]_vars

C14_Witness ==
  /\ ret.res = "ok" /\ ret.attaches = 2 /\ ret.spawns = 1
  /\ entry[ret.e].state = "connected" /\ entry[ret.e].context = ret.ctx
  /\ entry[ret.e].browser = ret.ctx /\ entry[ret.e].lastAttempt # 0

Referenced(h) ==
  \/ entry[handle[h].owner].browser = h
  \/ \E c \in Procs : call[c].pc = "build" /\ call[c].h = h

\* C16: no handle the registry obtained is left open without being
\* referenced by an entry: a handle that connect replaces has been closed.
C16_NoOpenOrphan ==
  \A h \in DOMAIN handle :
    (handle[h].live /\ ~handle[h].closed) => Referenced(h)

\* the calls whose attempt on entry e is under way
Attempting(e) ==
  {c \in Procs : call[c].e = e /\ call[c].pc \in {"attach", "sleep", "build"}}

\* C17: while an attempt is under way the entry holds no session context,
\* the context it held before was disposed before the attach began, and a
\* connected entry holds the context built from its stored handle: a context
\* that was never disposed is still stored in the entry it was made for.
C17_ContextRetired ==
  /\ \A e \in DOMAIN entry : Attempting(e) # {} => entry[e].context = 0
  /\ \A e \in DOMAIN entry :
       (entry[e].state = "connected" /\ entry[e].lastAttempt # 0) =>
         /\ entry[e].context = entry[e].browser
         /\ handle[entry[e].context].ctx \in {"built", "disposed"}
  /\ \A h \in DOMAIN handle :
       handle[h].ctx = "built" => entry[handle[h].owner].context = h

C17_Witness ==
  \E c \in Procs, h \in DOMAIN handle :
    /\ call[c].pc = "attach" /\ handle[h].owner = call[c].e
    /\ handle[h].ctx = "disposed" /\ handle[h].live
    /\ entry[call[c].e].context = 0 /\ entry[call[c].e].browser = h

\* a disposeAll call completes in this step
SweepCompletes ==
  sweep'.pc = "idle" /\ (sweep.pc = "closing" \/ sweep'.n = sweep.n + 1)

\* C18: when disposeAll completes the registry is empty (count() = 0,
\* isEmpty()), the sweep has reached every entry of the registry in order,
\* and at every entry whose own dispose did not throw the context was
\* disposed and close() was called on the connected browser, whatever
\* failed at other entries.
C18_SweepCompletes ==
  [][SweepCompletes =>
       ( /\ browsers' = <<>>
         /\ Len(sweep'.log) = Len(browsers)
         /\ \A i \in 1..Len(browsers) :
              /\ sweep'.log[i].e = browsers[i]
              /\ ~sweep'.log[i].threw =>
                   ( /\ sweep'.log[i].ctx # 0 =>
                          handle'[sweep'.log[i].ctx].ctx = "disposed"
                     /\ sweep'.log[i].live => sweep'.log[i].closeCalled ) )]_vars

C18_Witness ==
  /\ sweep.pc = "idle" /\ sweep.n = 1 /\ Len(sweep.log) = 2
  /\ Len(browsers) = 0 /\ count = 0 /\ isEmpty
  /\ sweep.log[1].threw
  /\ sweep.log[2].closeCalled /\ handle[sweep.log[2].ctx].ctx = "disposed"
  /\ handle[sweep.log[2].ctx].closed

\* C19: the sweep calls dispose on every stored context and close on every
\* handle that is live when the sweep reaches its entry, whichever dispose
\* or close failed: a failing dispose does not leave the same entry's live
\* handle unclosed.
C19_FullDisposal ==
  \A i \in 1..Len(sweep.log) : sweep.log[i].live => sweep.log[i].closeCalled

\* the entries the registry holds
Registered == {browsers[i] : i \in 1..Len(browsers)}

\* C20: a sweep does not discard an entry while a connect call holds that
\* entry's lock.
C20_Barrier ==
  \A c \in Procs :
    call[c].pc \in {"held", "attach", "sleep", "build"} => call[c].e \in Registered

RegOps == {"register", "addConnectedBrowser"}

\* this step is a register or addConnectedBrowser call
Registers == Len(entry') = Len(entry) + 1 /\ ret'.op \in RegOps

\* a disposeAll has completed and i registrations were made since
AfterSweep(i) == sweep.n > 0 /\ sweep.pc = "idle" /\ regs = i

\* C21: the first register or addConnectedBrowser after a completed
\* disposeAll returns index 1 and leaves a registry of one entry, and the
\* addressing contract then is the single-target one: getContext(index)
\* fails with IndexMustBeAbsent and getContext() resolves the new entry,
\* however many entries the registry held before the sweep.
C21_IndexReset ==
  [][/\ (Registers /\ AfterSweep(0)) =>
          ( /\ ret'.idx = 1
            /\ count' = 1 /\ ~hasMultipleBrowsers'
            /\ get(1)' = ret'.e /\ ret'.e = Len(entry') )
     /\ (Issues /\ Issued.op = "getContext" /\ AfterSweep(1)) =>
          ( /\ Issued.idx # NoIndex =>
                 (Issued.pc = "done" /\ Issued.res = "IndexMustBeAbsent")
            /\ Issued.idx = NoIndex =>
                 ( /\ Issued.e = Len(entry)
                   /\ Issued.res \in {"none", "ok", "CooldownActive"} ) )]_vars

C21_Witness ==
  /\ sweep.n = 1 /\ sweep.pc = "idle" /\ Len(sweep.log) = 2
  /\ regs = 1 /\ count = 1 /\ Len(entry) = 3
  /\ ret.op = "getContext" /\ ret.idx = NoIndex /\ ret.res = "ok"
  /\ ret.e = 3 /\ get(1) = 3

\* this step is a connectAllInBackground call on a registry with entries
StartsBackground == ncalls' > ncalls /\ call'[ncalls + 1].op = "background"

\* call c settles in this step by failing
FailsNow(c) ==
  call[c].pc # "idle" /\ call'[c].pc = "idle" /\ ret'.res = "ConnectionFailed"

\* C22: connectAllInBackground starts a connect(index, false, false) for
\* every index registered at the time of the call, each on the entry at its
\* index and none of them past the lock acquisition when the call returns;
\* the call hands nothing to its caller and changes no entry state and no
\* handle.  When one background connect fails, the failure goes to its own
\* record only: the background connects on other entries are left as they
\* were, and they still can succeed.
C22_BackgroundSweep ==
  [][/\ StartsBackground =>
          ( /\ ncalls' = ncalls + Len(browsers)
            /\ \A i \in 1..Len(browsers) :
                 LET r == call'[ncalls + i]
                 IN /\ r.op = "background" /\ r.idx = i /\ r.e = browsers[i]
                    /\ ~r.force /\ ~r.rsc
                    /\ r.pc \in {"held", "wait"} /\ r.attaches = 0
            /\ ret' = IdleCall
            /\ browsers' = browsers /\ handle' = handle
            /\ \A e \in DOMAIN entry : entry'[e].state = entry[e].state )
     /\ \A c \in Procs :
          (call[c].op = "background" /\ FailsNow(c)) =>
            ( /\ ret'.op = "background" /\ ret'.idx = call[c].idx
              /\ \A d \in Procs \ {c} :
                   (call[d].op = "background" /\ call[d].e # call[c].e) =>
                     call'[d] = call[d] )]_vars

C22_Witness ==
  /\ ncalls = 2 /\ Len(browsers) = 2
  /\ ret.op = "background" /\ ret.idx = 2 /\ ret.res = "ok" /\ ret.attaches = 1
  /\ entry[browsers[2]].state = "connected"
  /\ entry[browsers[1]].state = "disconnected"
  /\ entry[browsers[1]].lastError = <<"attach", 1>>

\* a background connect on entry e is in flight
BackgroundOn(e) ==
  \E c \in Procs : call[c].op = "background" /\ call[c].e = e /\ call[c].pc # "idle"

\* C23: when every attach fails, a background connect in flight on an entry
\* leads to that entry being disconnected with lastError set and the
\* background connect over: the entry does not stay pending or connecting
\* forever.
C23_BackgroundSettles ==
  \A e \in 1..MaxEntries :
    BackgroundOn(e) ~>
      ( /\ ~BackgroundOn(e) /\ e \in DOMAIN entry
        /\ entry[e].state = "disconnected" /\ entry[e].lastError # NoError )

C23_Witness ==
  /\ ret.op = "background" /\ ret.res = "ConnectionFailed" /\ ret.waited
  /\ ~BackgroundOn(ret.e)
  /\ entry[ret.e].state = "disconnected" /\ entry[ret.e].lastError = <<"attach", 1>>
  /\ entry[ret.e].lastAttempt # 0

\* the calls queued on entry e's lock
Waiters(e) == {entry[e].queue[i] : i \in 1..Len(entry[e].queue)}

\* C24: a call is blocked only by a connect on its own entry: a call that
\* waits for a lock waits in the queue of the entry it addresses and of no
\* other entry, and that entry's lock is held by another call on the same
\* entry; an attempt in flight on entry i leaves calls on entry j unblocked.
C24_Independence ==
  /\ \A c \in Procs :
       call[c].pc = "wait" =>
         /\ c \in Waiters(call[c].e)
         /\ entry[call[c].e].locked
         /\ Holders(call[c].e) \ {c} # {}
  /\ \A e \in DOMAIN entry :
       \A c \in Waiters(e) : call[c].e = e /\ call[c].pc = "wait"

C24_Witness ==
  \E c, d \in Procs :
    /\ call[c].pc = "attach" /\ call[d].pc = "attach"
    /\ call[c].e # call[d].e
    /\ call[c].op = "reconnect" /\ call[d].op = "ensureConnected"
    /\ entry[call[c].e].state = "connecting" /\ entry[call[d].e].state = "connecting"
    /\ entry[call[c].e].locked /\ entry[call[d].e].locked
    /\ ~call[d].waited

\* C25: the k-th registration since the registry was last emptied returns
\* index k and count() is the number of those registrations; until a
\* disposeAll completes get(k) stays the entry registered k-th, entries are
\* only ever appended, one per register / addConnectedBrowser call, and no
\* entry's label or configuration changes.
C25_StableIndex ==
  /\ [](/\ count = regs
        /\ ret.op \in RegOps => (ret.idx = regs /\ get(ret.idx) = ret.e))
  /\ [][/\ ~SweepCompletes =>
             ( /\ Len(browsers') \in {Len(browsers), Len(browsers) + 1}
               /\ \A k \in 1..Len(browsers) : get(k)' = get(k)
               /\ (Len(browsers') = Len(browsers) + 1) <=> Registers )
        /\ \A e \in DOMAIN entry :
             entry'[e].url = entry[e].url /\ entry'[e].config = entry[e].config]_vars

C25_Witness ==
  /\ ret.op = "addConnectedBrowser" /\ ret.idx = 2 /\ count = 2 /\ regs = 2
  /\ get(2) = ret.e
  /\ entry[get(1)].config.kind = "launch" /\ entry[get(1)].url = "launched"
  /\ entry[get(1)].state = "disconnected"

\* C26: get(index) fails with the out-of-bounds error exactly when index < 1
\* or index > count and returns the entry at that position for every other
\* index; connect and ensureConnected fail with OutOfRange at once, touching
\* no entry and no handle, for exactly the same indices, and otherwise go on
\* with the entry at the index.
C26_RangeCheck ==
  /\ [](\A index \in Indices :
          /\ (get(index) = 0) <=> (index < 1 \/ index > count)
          /\ (1 <= index /\ index <= count) => get(index) = browsers[index])
  /\ [][(Issues /\ Issued.op \in {"connect", "ensureConnected"}) =>
          IF Issued.idx < 1 \/ Issued.idx > count
          THEN /\ Issued.pc = "done" /\ Issued.res = "OutOfRange"
               /\ Issued.e = 0 /\ Issued.attaches = 0
               /\ entry' = entry /\ handle' = handle
          ELSE /\ Issued.res # "OutOfRange"
               /\ Issued.e = get(Issued.idx)]_vars

C26_Witness ==
  /\ count = 2 /\ get(0) = 0 /\ get(count + 1) = 0 /\ get(count) # 0
  /\ ret.op = "ensureConnected" /\ ret.idx = 0 /\ ret.res = "OutOfRange"

\* this step is a getAll() call whose list the caller keeps
ListTaken == snap' # snap /\ snap'.taken /\ snap'.muts = 0

\* the caller changes its list in this step
ListMutated == snap'.muts = snap.muts + 1

\* C27: getAll returns the entries in registration order; pushing to,
\* popping from or reversing the returned list changes neither count() nor
\* any get(i) nor what a later getAll() returns, and a registration made
\* after getAll() does not show in the list returned before.
C27_DefensiveCopy ==
  [][/\ ListTaken =>
          ( /\ ListItems' = browsers /\ browsers' = browsers
            /\ \A i \in 1..count : ListItems'[i] = get(i) )
     /\ ListMutated =>
          ( /\ browsers' = browsers /\ count' = count
            /\ \A i \in Indices : get(i)' = get(i)
            /\ getAll.items' = getAll.items )
     /\ (Registers /\ snap.taken) =>
          ( /\ ListItems' = ListItems
            /\ Len(getAll.items') = Len(getAll.items) + 1 )]_vars

C27_Witness ==
  /\ snap.taken /\ snap.muts = 1 /\ ListItems = <<>>
  /\ count = 2 /\ getAll.items = <<1, 2>> /\ get(1) = 1 /\ get(2) = 2

\* entry e is connected and its liveness check passes
Healthy(e) == entry[e].state = "connected" /\ BrowserConnected(entry[e])

\* ensureConnected(i), or getContext resolving i, issued on a healthy entry:
\* the installed context is resolved at once with no attach and no change
NoOpAtCall ==
  (Issues /\ Issued.op \in {"ensureConnected", "getContext"} /\ Issued.e # 0
     /\ Healthy(Issued.e)) =>
    ( /\ Issued.ctx = entry[Issued.e].context /\ Issued.ctx # 0
      /\ Issued.attaches = 0 /\ Issued.wasConn
      /\ Issued.pc = "done" => Issued.res = "ok"
      /\ entry' = entry /\ handle' = handle )

\* a non-forced connect that finds the entry healthy once it holds the lock:
\* the installed context is returned with no attach, and nothing of the
\* entry changes but the lock
NoOpAtLock ==
  \A c \in Procs :
    (call[c].pc = "held" /\ ~call[c].force /\ Healthy(call[c].e)
       /\ call'[c] # call[c]) =>
      ( /\ After(c).ctx = entry[call[c].e].context /\ After(c).ctx # 0
        /\ After(c).attaches = 0
        /\ After(c).pc = "done" => After(c).res = "ok"
        /\ handle' = handle
        /\ entry' = [entry EXCEPT ![call[c].e] = MutexRelease(@)] )

\* getContext(i) that resolved a healthy entry returns that context
NoOpReturned ==
  \A c \in Procs :
    (call[c].pc = "ret" /\ call[c].wasConn /\ call[c].attaches = 0
       /\ call'[c].pc = "idle") =>
      (ret'.res = "ok" /\ ret'.ctx = call[c].ctx)

\* C28: ensureConnected(i), getContext resolving i and connect(i, false, _)
\* on an entry that is connected and passes its liveness check return the
\* installed session context, make no attach/launch invocation and leave the
\* entry's state, handle, context, lastError and lastAttempt unchanged.
C28_NoOpOnHealthy == [][NoOpAtCall /\ NoOpAtLock /\ NoOpReturned]_vars

\* the state-machine table: from, to
Transitions ==
  { <<"pending", "connecting">>, <<"connecting", "connected">>,
    <<"connecting", "disconnected">>, <<"connected", "connecting">>,
    <<"disconnected", "connecting">> }

\* C29: every change of an entry's state is a row of the state-machine
\* table; in particular no entry returns to pending, none becomes connected
\* without passing through connecting, and none goes from connected
\* directly to disconnected.
C29_StateMachine ==
  [][\A e \in DOMAIN entry :
       entry'[e].state # entry[e].state =>
         <<entry[e].state, entry'[e].state>> \in Transitions]_vars

\* C30: a connect(i, true, _) on an in-range entry that has settled, with a
\* context or with ConnectionFailed, has made at least one attach/launch
\* invocation, whatever state the entry was in and whether or not its
\* cooldown window was open.
C30_ForcedAttempts ==
  \A r \in Records :
    (r.force /\ r.pc = "done" /\ r.res \in {"ok", "ConnectionFailed"})
      => r.attaches >= 1

\* C31: reconnect_browser rejects a supplied browserIndex while the registry
\* holds exactly one entry and an omitted one while it does not, in both
\* cases at once, with no connect called and nothing changed; otherwise it
\* calls connect(index, true, true) on the entry at the index (entry 1 when
\* the index is omitted), and it succeeds only when that connect made an
\* attempt and installed the context it returns.
C31_ReconnectAddressing ==
  [][/\ (Issues /\ Issued.op = "reconnect") =>
          IF (count = 1) = (Issued.idx # NoIndex)
          THEN /\ Issued.pc = "done"
               /\ Issued.res = (IF count = 1 THEN "IndexMustBeAbsent"
                                ELSE "IndexRequired")
               /\ Issued.e = 0 /\ Issued.attaches = 0
               /\ entry' = entry /\ handle' = handle
          ELSE LET index == IF Issued.idx = NoIndex THEN 1 ELSE Issued.idx
               IN /\ Issued.force /\ Issued.rsc
                  /\ IF InRange(index)
                     THEN /\ Issued.e = get(index)
                          /\ Issued.pc \in {"held", "wait"}
                          /\ \A e \in DOMAIN entry :
                               e # Issued.e => entry'[e] = entry[e]
                     ELSE /\ Issued.pc = "done" /\ Issued.res = "OutOfRange"
                          /\ entry' = entry
                  /\ handle' = handle
     /\ \A c \in Procs :
          (call[c].op = "reconnect" /\ call'[c].pc = "idle"
             /\ call[c].pc # "idle" /\ ret'.res = "ok") =>
            ( /\ ret'.attaches >= 1 /\ ret'.e = call[c].e
              /\ entry'[ret'.e].state = "connected"
              /\ entry'[ret'.e].context = ret'.ctx /\ ret'.ctx # 0 )]_vars

C31_Witness ==
  /\ count = 1 /\ entry[get(1)].state = "disconnected"
  /\ ret.op = "reconnect" /\ ret.idx = 1 /\ ret.res = "IndexMustBeAbsent"
  /\ ret.attaches = 0 /\ ~entry[get(1)].locked

\* C34: an entry in state connecting has its lock held, by exactly one
\* connect call, and that call is past the early-out (attaching, sleeping
\* before a retry, or building the context); an entry whose lock is free or
\* whose holder has yet to pass the early-out is never in state connecting,
\* so no connect leaves an entry connecting behind.
C34_ConnectingIsHeld ==
  \A e \in DOMAIN entry :
    /\ entry[e].state = "connecting" =>
         ( /\ entry[e].locked
           /\ Cardinality(Attempting(e)) = 1
           /\ Holders(e) = Attempting(e) )
    /\ Attempting(e) # {} => entry[e].state = "connecting"

C34_Witness ==
  \E c, d \in Procs :
    /\ call[c].pc = "sleep" /\ call[c].attempt = 2
    /\ call[d].pc = "wait" /\ call[d].e = call[c].e
    /\ entry[call[c].e].state = "connecting" /\ entry[call[c].e].locked
    /\ entry[call[c].e].lastError = NoError

\* C35: a disconnected entry has lastError and lastAttempt set, a connected
\* entry has no lastError, a pending entry has neither handle, context,
\* lastError nor lastAttempt, and a lastError that is set changes only by a
\* connect succeeding (cleared) or by a new failure (replaced): it stays
\* through a connecting phase.
C35_Bookkeeping ==
  /\ [](\A e \in DOMAIN entry :
          /\ entry[e].state = "disconnected" =>
               (entry[e].lastError # NoError /\ entry[e].lastAttempt # 0)
          /\ entry[e].state = "connected" => entry[e].lastError = NoError
          /\ entry[e].state = "pending" =>
               ( /\ entry[e].browser = 0 /\ entry[e].context = 0
                 /\ entry[e].lastError = NoError /\ entry[e].lastAttempt = 0 ))
  /\ [][\A e \in DOMAIN entry :
          (entry[e].lastError # NoError /\ entry'[e].lastError # entry[e].lastError) =>
            \/ entry'[e].state = "connected" /\ entry'[e].lastError = NoError
            \/ entry'[e].state = "disconnected" /\ entry'[e].lastError # NoError]_vars

\* C36: for an in-range index i, ensureConnected(i) fails with
\* CooldownActive exactly when canRetry(i) is false in the state it is
\* called in; for an out-of-range index canRetry returns false and
\* ensureConnected fails with OutOfRange.
C36_CanRetryAgrees ==
  [][(Issues /\ Issued.op = "ensureConnected") =>
       IF InRange(Issued.idx)
       THEN (Issued.res = "CooldownActive") <=> ~canRetry(Issued.idx)
       ELSE ~canRetry(Issued.idx) /\ Issued.res = "OutOfRange"]_vars

C36_Witness ==
  \E c \in Procs :
    /\ call[c].op = "ensureConnected" /\ call[c].pc = "held" /\ ~call[c].waited
    /\ entry[call[c].e].state = "disconnected" /\ entry[call[c].e].lastAttempt # 0
    /\ now = entry[call[c].e].lastAttempt + RETRY_COOLDOWN_MS
    /\ canRetry(call[c].idx) /\ get(call[c].idx) = call[c].e

\* C37: while no entry is registered (initially or after disposeAll),
\* getContext() without an index fails with IndexRequired and getContext(k)
\* fails with OutOfRange for every k, neither touching an entry or a handle
\* nor attaching; count() is 0, isEmpty() is true and hasMultipleBrowsers()
\* is false.
C37_EmptyRegistry ==
  /\ [](browsers = <<>> => (count = 0 /\ isEmpty /\ ~hasMultipleBrowsers))
  /\ [][(Issues /\ Issued.op = "getContext" /\ browsers = <<>>) =>
          /\ Issued.pc = "done"
          /\ Issued.res = (IF Issued.idx = NoIndex THEN "IndexRequired"
                           ELSE "OutOfRange")
          /\ Issued.attaches = 0 /\ Issued.e = 0 /\ Issued.ctx = 0
          /\ entry' = entry /\ handle' = handle /\ browsers' = <<>>]_vars

C37_Witness ==
  /\ browsers = <<>> /\ sweep.n > 0 /\ sweep.pc = "idle" /\ Len(entry) >= 1
  /\ ret.op = "getContext" /\ ret.idx = 1 /\ ret.res = "OutOfRange"
  /\ isEmpty /\ count = 0

\* the operations that hand a session context to their caller
ContextOps == {"connect", "ensureConnected", "getContext", "reconnect", "background"}

\* C38: as long as disposeAll has not been called, a session context that
\* connect, ensureConnected or getContext returns is, in the state it is
\* returned in, the context installed in the addressed entry, and the
\* registry has not disposed it.
C38_NoStaleContext ==
  (ret.res = "ok" /\ ret.op \in ContextOps /\ sweep.n = 0) =>
    /\ ret.ctx # 0 /\ ret.e \in DOMAIN entry
    /\ entry[ret.e].context = ret.ctx
    /\ handle[ret.ctx].ctx = "built"

\* C39: a connect that passes the early-out and then fails leaves the entry
\* disconnected with no session context and with the handle field it had
\* before the call; the handle of an attach that succeeded before the
\* context construction failed is not installed, and the handle field of an
\* entry changes only when a connect on it succeeds.
C39_FailedConnect ==
  [][/\ \A c \in Procs :
          (call[c].pc \in {"held", "attach", "build"}
             /\ After(c).res = "ConnectionFailed") =>
            ( /\ entry'[call[c].e].state = "disconnected"
              /\ entry'[call[c].e].context = 0
              /\ entry'[call[c].e].browser = entry[call[c].e].browser
              /\ call[c].h # 0 => entry'[call[c].e].browser # call[c].h )
     /\ \A e \in DOMAIN entry :
          entry'[e].browser # entry[e].browser =>
            \E c \in Procs :
              /\ call[c].pc = "build" /\ call[c].e = e
              /\ After(c).res # "ConnectionFailed"
              /\ entry'[e].state = "connected"
              /\ entry'[e].browser = call[c].h]_vars

\* ============================================================ tool dispatch
\* the tools: any tool that works on a browser context, and the two that
\* skip it
Tools == {"page", "reconnect_browser", "list_browsers"}

\* tool.annotations.skipBrowserContext
skipBrowserContext(tool) == tool \in {"reconnect_browser", "list_browsers"}

\* faulty variant: the stored state reported as it is
formatStateTrusting(en) ==
  CASE en.state = "pending" -> [text |-> "pending", cause |-> NoError]
    [] en.state = "connecting" -> [text |-> "connecting...", cause |-> NoError]
    [] en.state = "connected" -> [text |-> "connected", cause |-> NoError]
    [] en.state = "disconnected" -> [text |-> "disconnected", cause |-> en.lastError]

\* formatState(entry): the state as list_browsers shows it (cause: the
\* message of lastError that goes with `disconnected`)
formatState(en) ==
  CASE en.state = "pending" -> [text |-> "pending", cause |-> NoError]
    [] en.state = "connecting" -> [text |-> "connecting...", cause |-> NoError]
    [] en.state = "connected" ->
         IF BrowserConnected(en) THEN [text |-> "connected", cause |-> NoError]
         ELSE [text |-> "disconnected (connection lost)", cause |-> NoError]
    [] en.state = "disconnected" -> [text |-> "disconnected", cause |-> en.lastError]

\* the lines the list_browsers handler writes: one per element of getAll()
\* (pages: the entry's pages are listed under it)
listBrowsersLines ==
  [i \in 1..Len(getAll.items) |->
     LET en == entry[getAll.items[i]]
     IN [index |-> i, url |-> en.url, state |-> formatState(en),
         pages |-> (en.state = "connected" /\ BrowserConnected(en)
                      /\ en.context # 0)]]

\* a tool request arrives: the dispatcher calls toolMutex.acquire()
CallTool(c) ==
  /\ IsNextSlot(c) /\ ncalls < MaxCalls
  /\ \E tool \in Tools, idx \in {NoIndex} \cup PositiveIndices :
       /\ tool = "list_browsers" => idx = NoIndex
       /\ Out([call EXCEPT ![c] =
             [Begin("tool", idx, FALSE, FALSE) EXCEPT
                !.tool = tool,
                !.pc = IF toolMutex.locked THEN "queued" ELSE "granted"]])
  /\ toolMutex' = MutexAcquire(toolMutex, c)
  /\ ncalls' = ncalls + 1
  /\ UNCHANGED <<browsers, entry, handle, now, sweep, scenario, regs, snap,
               started>>

\* the try block of the dispatcher up to its first await: getContext for a
\* tool that needs a context, else the tool handler at once (list_browsers
\* runs to its end, reconnect_browser up to its connect)
ToolEnters(c, r) ==
  CASE r.tool = "list_browsers" ->
         /\ Out([call EXCEPT ![c] =
               [r EXCEPT !.op = "list_browsers", !.invoked = TRUE,
                         !.report = listBrowsersLines, !.pc = "respond"]])
         /\ UNCHANGED entry
    [] r.tool = "reconnect_browser" ->
         reconnectEnter(c, [r EXCEPT !.op = "reconnect", !.force = TRUE,
                                     !.rsc = TRUE, !.invoked = TRUE])
    [] r.tool = "page" ->
         getContextEnter(c, [r EXCEPT !.op = "getContext"])

\* acquire() has resolved for the invocation
ToolGranted(r) == r.pc = "granted"

\* the dispatcher resumes holding toolMutex
ToolRun(c) ==
  /\ ToolGranted(call[c])
  /\ ToolEnters(c, call[c])
  /\ UNCHANGED <<browsers, handle, now, ncalls, sweep, scenario, regs, snap,
               toolMutex, started>>

\* faulty variant: an error leaves the dispatcher with the guard not disposed
toolFinishHolding(c, res) ==
  /\ call' = [call EXCEPT ![c] = IdleCall]
  /\ ret' = [call[c] EXCEPT !.pc = "done", !.res = res]
  /\ toolMutex' = IF res = "ok" THEN MutexRelease(toolMutex) ELSE toolMutex

\* the invocation ends: the result (isError unless res is ok) is returned,
\* and finally guard.dispose() hands toolMutex to the oldest acquirer
toolFinish(c, res) ==
  /\ call' = [p \in Procs |->
        IF p = c THEN IdleCall
        ELSE IF p = MutexNext(toolMutex) THEN [call[p] EXCEPT !.pc = "granted"]
        ELSE call[p]]
  /\ ret' = [call[c] EXCEPT !.pc = "done", !.res = res]
  /\ toolMutex' = MutexRelease(toolMutex)

\* what the dispatcher awaited (getContext, or the reconnect_browser
\* handler) has settled: go on, or catch the error
ToolResume(c) ==
  /\ call[c].pc = "settled"
  /\ IF call[c].res = "ok"
     THEN /\ call' = [call EXCEPT ![c].pc =
                IF skipBrowserContext(call[c].tool) THEN "respond" ELSE "detect"]
          /\ ret' = IdleCall
          /\ UNCHANGED toolMutex
     ELSE toolFinish(c, call[c].res)
  /\ UNCHANGED <<browsers, entry, handle, now, ncalls, sweep, scenario, regs,
               snap, started>>

\* context.detectOpenDevToolsWindows() settles; tool.handler is invoked
ToolDetectSettles(c) ==
  /\ call[c].pc = "detect"
  /\ \/ /\ call' = [call EXCEPT ![c].pc = "handler", ![c].invoked = TRUE]
        /\ ret' = IdleCall
        /\ UNCHANGED toolMutex
     \/ toolFinish(c, "DetectError")
  /\ UNCHANGED <<browsers, entry, handle, now, ncalls, sweep, scenario, regs,
               snap, started>>

\* the handler of a tool that works on the context settles
ToolHandlerSettles(c) ==
  /\ call[c].pc = "handler"
  /\ \/ /\ call' = [call EXCEPT ![c].pc = "respond"]
        /\ ret' = IdleCall
        /\ UNCHANGED toolMutex
     \/ toolFinish(c, "HandlerError")
  /\ UNCHANGED <<browsers, entry, handle, now, ncalls, sweep, scenario, regs,
               snap, started>>

\* response.handle / handleWithoutContext settles
ToolRespondSettles(c) ==
  /\ call[c].pc = "respond"
  /\ \/ toolFinish(c, "ok")
     \/ toolFinish(c, "ResponseError")
  /\ UNCHANGED <<browsers, entry, handle, now, ncalls, sweep, scenario, regs,
               snap, started>>

\* registerBrowserConfigs() registers the configurations before anything
\* else runs
RegisterConfig(cfg) == ncalls = 0 /\ ~started /\ Register(cfg)

\* the end of the startup sequence: browserRegistry.connectAllInBackground()
Startup ==
  /\ ~started
  /\ connectAll
  /\ started' = TRUE
  /\ UNCHANGED <<browsers, handle, now, sweep, scenario, regs, snap, toolMutex>>

\* The whole server: the configurations are registered, tool requests come
\* in, connectAllInBackground runs once, browsers go away (live) or the
\* configurations carry a start command (retry).
ToolInit == Init /\ scenario \in {"live", "retry"}

ToolNext ==
  \/ \E cfg \in Configs : RegisterConfig(cfg)
  \/ Startup
  \/ \E c \in Procs : CallTool(c)
  \/ \E c \in Procs : ToolRun(c)
  \/ \E c \in Procs : ToolResume(c)
  \/ \E c \in Procs : ToolDetectSettles(c)
  \/ \E c \in Procs : ToolHandlerSettles(c)
  \/ \E c \in Procs : ToolRespondSettles(c)
  \/ \E c \in Procs : ConnectLocked(c)
  \/ \E c \in Procs : AttachSettles(c)
  \/ \E c \in Procs : SleepSettles(c)
  \/ \E c \in Procs : BuildSettles(c)
  \/ \E c \in Procs : GetContextReturn(c)
  \/ \E h \in DOMAIN handle : DropHandle(h)

\* Every continuation that is ready runs, and each connection attempt,
\* context call and handler terminates.
ToolFairness ==
  \A c \in Procs :
    /\ WF_vars(ToolRun(c))
    /\ WF_vars(ToolResume(c))
    /\ WF_vars(ToolDetectSettles(c))
    /\ WF_vars(ToolHandlerSettles(c))
    /\ WF_vars(ToolRespondSettles(c))
    /\ WF_vars(ConnectLocked(c))
    /\ WF_vars(AttachSettles(c))
    /\ WF_vars(SleepSettles(c))
    /\ WF_vars(BuildSettles(c))
    /\ WF_vars(GetContextReturn(c))

ToolSpec == ToolInit /\ [][ToolNext]_vars /\ ToolFairness

\* the list_browsers handler runs in slot c in this step
ListsBrowsers(c) ==
  call[c].tool = "list_browsers" /\ call[c].pc = "granted" /\ call'[c].pc # "granted"

\* C32: list_browsers is a pure read reporting the true status.  Its
\* invocation never enters getContext or connect (no entry addressed, no
\* attach); the step its handler runs in changes no entry, handle, registry
\* array or other call and is preceded by no change of its own; it writes
\* one line per registered entry, under the entry's 1-based index and in
\* registration order, with the entry's label; and it reports an entry as
\* connected exactly when the entry's state is connected and its handle is
\* live, a connected entry with a dropped handle being reported as
\* disconnected (connection lost).
C32_ListBrowsers ==
  /\ [](\A c \in Procs :
          call[c].tool = "list_browsers" =>
            /\ call[c].pc \in {"queued", "granted", "respond"}
            /\ call[c].op \in {"tool", "list_browsers"}
            /\ call[c].e = 0 /\ call[c].attaches = 0 /\ call[c].spawns = 0
            /\ call[c].ctx = 0)
  /\ [][\A c \in Procs :
          /\ (call[c].tool = "list_browsers" /\ call'[c] # call[c]) =>
               ( /\ entry' = entry /\ handle' = handle /\ browsers' = browsers
                 /\ ncalls' = ncalls )
          /\ ListsBrowsers(c) =>
               ( /\ \A d \in Procs \ {c} : call'[d] = call[d]
                 /\ call'[c].pc = "respond" /\ call'[c].invoked
                 /\ Len(call'[c].report) = Len(browsers)
                 /\ \A i \in 1..Len(browsers) :
                      LET line == call'[c].report[i]
                          en == entry[browsers[i]]
                      IN /\ line.index = i
                         /\ line.url = en.url
                         /\ (line.state.text = "connected") <=>
                              (en.state = "connected" /\ BrowserConnected(en))
                         /\ (en.state = "connected" /\ ~BrowserConnected(en)) =>
                              line.state.text = "disconnected (connection lost)"
                         /\ en.state = "pending" => line.state.text = "pending"
                         /\ en.state = "connecting" =>
                              line.state.text = "connecting..."
                         /\ en.state = "disconnected" =>
                              ( /\ line.state.text = "disconnected"
                                /\ line.state.cause = en.lastError ) )]_vars

C32_Witness ==
  \E c \in Procs :
    /\ call[c].tool = "list_browsers" /\ call[c].pc = "respond"
    /\ Len(browsers) = 2 /\ Len(call[c].report) = 2
    /\ entry[browsers[2]].state = "connected"
    /\ ~BrowserConnected(entry[browsers[2]])
    /\ call[c].report[2].state.text = "disconnected (connection lost)"
    /\ call[c].report[1].state.text \in {"pending", "disconnected"}

\* the tool invocations between toolMutex.acquire() resolving and
\* guard.dispose()
Dispatching == {c \in Procs : call[c].tool # "none" /\ call[c].pc # "queued"}

\* the errors getContext fails with
GetContextErrors ==
  {"IndexMustBeAbsent", "IndexRequired", "OutOfRange", "CooldownActive",
   "ConnectionFailed"}

\* C33: tool dispatch is serialized and never wedges.  At most one tool
\* invocation is between acquiring and releasing toolMutex, and the mutex
\* is held exactly while there is one, its queue being the invocations
\* that wait, oldest first: it is released on every exit path.  An
\* invocation whose getContext failed ends with that error as its result and
\* its handler was not invoked.  Every queued invocation is eventually
\* served, each connection attempt, context call and handler terminating.
C33_Serialized ==
  /\ [](/\ Cardinality(Dispatching) <= 1
        /\ toolMutex.locked <=> Dispatching # {}
        /\ \A i \in 1..Len(toolMutex.queue) :
             /\ call[toolMutex.queue[i]].pc = "queued"
             /\ \A j \in 1..Len(toolMutex.queue) :
                  i < j => toolMutex.queue[i] < toolMutex.queue[j]
        /\ \A c \in Procs :
             call[c].pc = "queued" =>
               \E i \in 1..Len(toolMutex.queue) : toolMutex.queue[i] = c
        /\ \A r \in Records :
             (r.tool = "page" /\ r.res \in GetContextErrors) => ~r.invoked)
  /\ \A c \in Procs : (call[c].pc = "queued") ~> (call[c].pc = "granted")

C33_Witness ==
  \E c \in Procs :
    /\ ret.tool = "page" /\ ret.res = "ConnectionFailed" /\ ret.pc = "done"
    /\ ~ret.invoked /\ ret.attaches >= 1
    /\ call[c].tool = "page" /\ call[c].pc = "granted"
    /\ toolMutex.locked /\ toolMutex.queue = <<>>

\* C40: in the whole server, the session context that getContext handed to
\* a tool invocation is not disposed while that invocation's handler is
\* running.
C40_ContextInUse ==
  \A c \in Procs :
    (call[c].tool = "page" /\ call[c].pc = "handler") =>
      ( /\ call[c].ctx # 0
        /\ handle[call[c].ctx].ctx = "built" )

====
